---- MODULE Spec2Model ----
(***************************************************************************)
(* Longest-prefix-match route tables of jursonmo/route.                    *)
(*                                                                         *)
(*   package route   (src/route.go)          the flat table: 32 slots,     *)
(*                                           one lock per slot, one lock   *)
(*                                           and one uint32 slotMask for   *)
(*                                           the table.                    *)
(*   package routev2 (src/unnamed/part_001)  the sectioned table: 4        *)
(*                                           sections of 8 slots, one lock *)
(*                                           and one uint8 slotMask per    *)
(*                                           section.                      *)
(*                                                                         *)
(* A uint32 is the set of its one-bits (bit 0 is the least significant),   *)
(* so every operation of the code on 32-bit words is modelled bit by bit   *)
(* and wraps as it does in Go.  A byte is a number in 0..255.              *)
(***************************************************************************)
EXTENDS Integers, Sequences, FiniteSets, TLC

\* ------------------------------------------------------------ constants
maskMaxLen == 32
IpSection == 4
SectionSize == 8

\* The number of goroutines calling into a table concurrently.
NProcs == 2

\* The most read locks a run leaves counted on one section's lock.
MaxReaders == 2

\* ------------------------------------------------------------ words
Bits32 == 0 .. 31
Bits8 == 0 .. 7

\* 1 << k in a word of `width` bits; Go gives 0 when k >= width.
Shl1(k, width) == IF k >= 0 /\ k < width THEN {k} ELSE {}

\* x - 1 in a word of `width` bits, wrapping at zero.
Dec(x, width) ==
    IF x = {} THEN 0 .. (width - 1)
    ELSE LET low == CHOOSE b \in x : \A c \in x : b <= c
         IN  (x \ {low}) \cup {c \in 0 .. (width - 1) : c < low}

\* x >> 1
Shr1(x) == {b - 1 : b \in x \ {0}}

\* a & b on bytes
RECURSIVE ByteAnd(_, _)
ByteAnd(a, b) ==
    IF a = 0 \/ b = 0 THEN 0
    ELSE (a % 2) * (b % 2) + 2 * ByteAnd(a \div 2, b \div 2)

\* binary.BigEndian.Uint32(b): the first four bytes of b, b[1] the most
\* significant.
Uint32(b) == {t \in Bits32 : (b[4 - (t \div 8)] \div (2 ^ (t % 8))) % 2 = 1}

\* ------------------------------------------------------------ net.ParseCIDR
\* A CIDR text is given by what its characters spell: the address family
\* ("ip4": four decimal octets, "ip6": sixteen bytes, "junk": neither), the
\* address as written and the number after the slash.

\* net.CIDRMask(ones, bits): bits/8 bytes, the first `ones` bits set.
CIDRMask(ones, bits) ==
    [k \in 1 .. (bits \div 8) |->
        IF ones >= 8 * k THEN 255
        ELSE IF ones <= 8 * (k - 1) THEN 0
        ELSE 255 - (255 \div (2 ^ (ones - 8 * (k - 1))))]

\* IP.Mask(mask): byte-wise and.
IPMask(ip, mask) == [k \in DOMAIN ip |-> ByteAnd(ip[k], mask[k])]

\* The leading one-bits of a byte.
RECURSIVE LeadingOnes(_, _)
LeadingOnes(b, t) ==
    IF t < 0 \/ (b \div (2 ^ t)) % 2 = 0 THEN 0 ELSE 1 + LeadingOnes(b, t - 1)

\* IPMask.Size(): the number of leading ones of a canonical mask.
RECURSIVE MaskSizeFrom(_, _)
MaskSizeFrom(m, k) ==
    IF k > Len(m) THEN 0
    ELSE IF m[k] = 255 THEN 8 + MaskSizeFrom(m, k + 1)
    ELSE LeadingOnes(m[k], 7)
MaskSize(m) == MaskSizeFrom(m, 1)

\* net.ParseCIDR without the check of the prefix length against the address
\* length.
ParseCIDRAnyLen(c) ==
    LET bits == IF c.fam = "ip4" THEN 32 ELSE 128
        bad  == \/ c.fam = "junk"
                \/ \E k \in DOMAIN c.a : c.a[k] > 255
    IN  IF bad THEN [err |-> TRUE, IP |-> <<>>, Mask |-> <<>>]
        ELSE [err  |-> FALSE,
              IP   |-> IPMask(c.a, CIDRMask(c.n, bits)),
              Mask |-> CIDRMask(c.n, bits)]

\* net.ParseCIDR: err, or the network address (the address and-ed with the
\* mask, 4 bytes for IPv4 and 16 for IPv6) and the mask.
ParseCIDR(c) ==
    LET bits == IF c.fam = "ip4" THEN 32 ELSE 128
        bad  == \/ c.fam = "junk"
                \/ \E k \in DOMAIN c.a : c.a[k] > 255
                \/ c.n > bits
    IN  IF bad THEN [err |-> TRUE, IP |-> <<>>, Mask |-> <<>>]
        ELSE [err  |-> FALSE,
              IP   |-> IPMask(c.a, CIDRMask(c.n, bits)),
              Mask |-> CIDRMask(c.n, bits)]

\* ------------------------------------------------------------ maps
\* make(map[NetWork]interface{}); a map is a function from its keys.
EmptyMap == [k \in {} |-> "nil"]
MapStore(h, k, v) == [x \in DOMAIN h \cup {k} |-> IF x = k THEN v ELSE h[x]]
MapDelete(h, k) == [x \in DOMAIN h \ {k} |-> h[x]]
MapLen(h) == Cardinality(DOMAIN h)

\* ------------------------------------------------------------ package route
\* The mask without the decrement: 1 << (maskMaxLen - uint32(i)).
FlatMaskNoDec(i) == Shl1(maskMaxLen - i, 32)

\* rt.rts[i].mask = (1 << (maskMaxLen - uint32(i))) - 1, in uint32.
FlatMask(i) == Dec(Shl1(maskMaxLen - i, 32), 32)

NewRouteTable ==
    [slotMask |-> {},
     rts      |-> [i \in 0 .. (maskMaxLen - 1) |->
                      [mask |-> FlatMask(i), rtHash |-> EmptyMap]]]

\* slot := maskMaxLen - maskLen
SlotOf(maskLen) == maskMaxLen - maskLen

\* rt.rts[slot].rtHash[net] = v
AddStore(t, slot, net, v) ==
    [t EXCEPT !.rts[slot].rtHash = MapStore(@, net, v)]

\* if len(rt.rts[slot].rtHash) > 0 { rt.slotMask |= 1 << uint32(slot) },
\* n the length that the condition read.
AddSetBit(t, slot, n) ==
    IF n > 0
    THEN [t EXCEPT !.slotMask = @ \cup Shl1(slot, 32)]
    ELSE t

\* delete(rt.rts[slot].rtHash, net)
DelStore(t, slot, net) ==
    [t EXCEPT !.rts[slot].rtHash = MapDelete(@, net)]

\* rt.slotMask &= ^(1 << uint32(slot)), whatever the map holds.
DelClearBitAlways(t, slot, n) == [t EXCEPT !.slotMask = @ \ Shl1(slot, 32)]

\* if len(rt.rts[slot].rtHash) == 0 { rt.slotMask &= ^(1 << uint32(slot)) },
\* n the length that the condition read.
DelClearBit(t, slot, n) ==
    IF n = 0
    THEN [t EXCEPT !.slotMask = @ \ Shl1(slot, 32)]
    ELSE t

\* The iterations of RouteLookup's loop that touch no shared state: from
\* (i, rtMask), shift past the clear bits until the loop ends (i reaches
\* maskMaxLen or rtMask is 0) or bit 0 of rtMask is set.
RECURSIVE SkipClear(_, _)
SkipClear(i, m) ==
    IF i >= maskMaxLen \/ m = {} \/ 0 \in m THEN [i |-> i, m |-> m]
    ELSE SkipClear(i + 1, Shr1(m))

\* ------------------------------------------------------------ package routev2
\* section.rtSec[j].mask = (1 << (maskMaxLen - uint32(idx))) - 1, in uint32.
V2Mask(idx) == Dec(Shl1(maskMaxLen - idx, 32), 32)

V2NewRouteTable ==
    [rts |-> [i \in 0 .. (IpSection - 1) |->
                 [slotMask |-> {},
                  rtSec    |-> [j \in 0 .. (SectionSize - 1) |->
                                   [mask   |-> V2Mask(i * SectionSize + j),
                                    rtHash |-> EmptyMap]]]]]

\* Go's integer division truncates toward zero.
GoDiv(a, b) == IF a >= 0 THEN a \div b ELSE 0 - ((0 - a) \div b)

\* ipID := slot / IpSection
IpID(slot) == GoDiv(slot, IpSection)

\* secID := slot & (SectionSize - 1): the low three bits of the two's
\* complement of slot.
SecID(slot) == slot % SectionSize

\* rte.rtHash[net] = v; sec.slotMask is left as it is.
V2AddStoreNoBit(t, ipID, secID, net, v) ==
    [t EXCEPT !.rts[ipID].rtSec[secID].rtHash = MapStore(@, net, v)]

\* rte.rtHash[net] = v; sec.slotMask |= 1 << uint8(secID)
V2AddStore(t, ipID, secID, net, v) ==
    [t EXCEPT !.rts[ipID].rtSec[secID].rtHash = MapStore(@, net, v),
              !.rts[ipID].slotMask = @ \cup Shl1(secID, 8)]

\* delete(rte.rtHash, net); sec.slotMask is left as it is.
V2DelStoreNoClear(t, ipID, secID, net) ==
    [t EXCEPT !.rts[ipID].rtSec[secID].rtHash = MapDelete(@, net)]

\* A delete of net from every slot of the section, whatever the length.
V2DelStoreAllLengths(t, ipID, secID, net) ==
    [t EXCEPT !.rts[ipID] =
        [slotMask |-> {j \in @.slotMask : DOMAIN @.rtSec[j].rtHash \ {net} # {}},
         rtSec    |-> [j \in 0 .. (SectionSize - 1) |->
                          [@.rtSec[j] EXCEPT !.rtHash = MapDelete(@, net)]]]]

\* delete(rte.rtHash, net)
\* if len(rte.rtHash) == 0 { sec.slotMask &= ^(1 << uint8(secID)) }
V2DelStore(t, ipID, secID, net) ==
    LET h == MapDelete(t.rts[ipID].rtSec[secID].rtHash, net)
    IN  [t EXCEPT !.rts[ipID].rtSec[secID].rtHash = h,
                  !.rts[ipID].slotMask = IF MapLen(h) = 0
                                         THEN @ \ Shl1(secID, 8) ELSE @]

\* ------------------------------------------------------------ sync.RWMutex
\* w: held for writing; r: the number of read locks held.
Unlocked == [w |-> FALSE, r |-> 0]
CanLock(m) == ~m.w /\ m.r = 0
CanRLock(m) == ~m.w
Lock(m) == [m EXCEPT !.w = TRUE]
Unlock(m) == [m EXCEPT !.w = FALSE]
RLock(m) == [m EXCEPT !.r = @ + 1]
RUnlock(m) == [m EXCEPT !.r = @ - 1]

\* ------------------------------------------------------------ inputs
Cidr4(a, n) == [fam |-> "ip4", a |-> a, n |-> n]
Cidr6(a, n) == [fam |-> "ip6", a |-> a, n |-> n]

Net24 == Cidr4(<<10, 0, 0, 0>>, 24)         \* "10.0.0.0/24"
Host24 == Cidr4(<<10, 0, 0, 77>>, 24)       \* "10.0.0.77/24"
Net16 == Cidr4(<<10, 0, 0, 0>>, 16)         \* "10.0.0.0/16"
Host32 == Cidr4(<<10, 0, 0, 5>>, 32)        \* "10.0.0.5/32"
Net30 == Cidr4(<<10, 0, 0, 4>>, 30)         \* "10.0.0.4/30"
Default0 == Cidr4(<<0, 0, 0, 0>>, 0)        \* "0.0.0.0/0"
Host32b == Cidr4(<<10, 0, 0, 4>>, 32)       \* "10.0.0.4/32"
Host30 == Cidr4(<<10, 0, 0, 5>>, 30)        \* "10.0.0.5/30"
Net28 == Cidr4(<<10, 0, 0, 0>>, 28)         \* "10.0.0.0/28"
BadOctet == Cidr4(<<10, 0, 0, 256>>, 24)    \* "10.0.0.256/24"
BadLen == Cidr4(<<10, 0, 0, 0>>, 33)        \* "10.0.0.0/33"
Junk == [fam |-> "junk", a |-> <<>>, n |-> 0]     \* "10.0.0.0", "x/y", ...
V6Loopback ==                               \* "::1/128"
    Cidr6(<<0, 0, 0, 0, 0, 0, 0, 0, 0, 0, 0, 0, 0, 0, 0, 1>>, 128)
V6Doc ==                                    \* "2001:db8::/16"
    Cidr6(<<32, 1, 13, 184, 0, 0, 0, 0, 0, 0, 0, 0, 0, 0, 0, 0>>, 16)
NoCidr == [fam |-> "none", a |-> <<>>, n |-> 0]

Addr(a) == Uint32(a)
A_10_0_0_5 == Addr(<<10, 0, 0, 5>>)
A_10_0_1_9 == Addr(<<10, 0, 1, 9>>)
A_11_0_0_1 == Addr(<<11, 0, 0, 1>>)

\* What the callers of a run pass in: CIDR texts, values and addresses.
FlatSeqInputs ==
    [cidrs |-> {Net24, Host24, Net16, Host32, Default0, BadOctet, BadLen,
                Junk, V6Loopback, V6Doc},
     vals  |-> {"V1", "V2"},
     ips   |-> {A_10_0_0_5, A_10_0_1_9, A_11_0_0_1}]
V2Inputs ==
    [cidrs |-> {Host32, Net30, Net16},
     vals  |-> {"V1"},
     ips   |-> {A_10_0_0_5}]
AddDelInputs ==
    [cidrs |-> {Host32, Net16, BadOctet, BadLen, Junk},
     vals  |-> {"V1"},
     ips   |-> {}]
FlatInputs ==
    [cidrs |-> {Host32, Host32b, Net24},
     vals  |-> {"V1"},
     ips   |-> {A_10_0_0_5}]
V2AddDelInputs ==
    [cidrs |-> {Host32, Host32b, Host30, Net28},
     vals  |-> {"V1"},
     ips   |-> {}]
SmallInputs ==
    [cidrs |-> {Host32, BadLen},
     vals  |-> {"V1"},
     ips   |-> {A_10_0_0_5}]

\* ------------------------------------------------------------ state
Procs == 1 .. NProcs

VARIABLES
    pkg,        \* the package under test: "route" or "routev2"
    procs,      \* the goroutines that call into the table
    inputs,     \* what they pass in
    rt,         \* route.routeTable: slotMask and rts
    mu,         \* route.routeTable's own RWMutex
    rteMu,      \* route.rtEntry's RWMutex, one per slot
    rt2,        \* routev2.routeTable: rts, the sections
    secMu,      \* routev2.rtSection's RWMutex, one per section
    pc,         \* where each goroutine is: "idle" between calls
    call,       \* each goroutine's current or last call, whether its prefix
                \* was registered when the call began, and whether a
                \* DelRoute on its slot has begun since
    ret,        \* what its last completed call returned
    loc,        \* the locals of its current call
    crashed,    \* "no", or how the process died: "panic", "fatal"
    registered, \* the IPv4 prefixes stored and not deleted, with their values
    overwrote   \* the prefix whose value the latest overwriting AddRoute replaced

vars == <<pkg, procs, inputs, rt, mu, rteMu, rt2, secMu, pc, call, ret, loc,
          crashed, registered, overwrote>>

Loc0 == [slot |-> 0, net |-> {}, n |-> 0, i |-> 0, j |-> 0, m |-> {}]
NoCall == [op |-> "none", network |-> NoCidr, v |-> "nil", ip |-> {}, known |-> FALSE, delSince |-> FALSE]

\* A run is of one package; the other package's table is not built.
NoTable == [rts |-> <<>>]

InitWith(k, ps, in) ==
    /\ pkg = k
    /\ procs = ps
    /\ inputs = in
    /\ rt = IF k = "route" THEN NewRouteTable ELSE NoTable
    /\ mu = Unlocked
    /\ rteMu = IF k = "route" THEN [i \in 0 .. (maskMaxLen - 1) |-> Unlocked] ELSE <<>>
    /\ rt2 = IF k = "routev2" THEN V2NewRouteTable ELSE NoTable
    /\ secMu = IF k = "routev2" THEN [i \in 0 .. (IpSection - 1) |-> Unlocked] ELSE <<>>
    /\ pc = [p \in Procs |-> "idle"]
    /\ call = [p \in Procs |-> NoCall]
    /\ ret = [p \in Procs |-> "none"]
    /\ loc = [p \in Procs |-> Loc0]
    /\ crashed = "no"
    /\ registered = EmptyMap
    /\ overwrote = {}

\* ------------------------------------------------------------ the prefixes registered
\* A well-formed IPv4 CIDR text: A.B.C.D/N, octets in 0..255, N in 0..32.
WellFormedIPv4(c) ==
    /\ c.fam = "ip4"
    /\ \A k \in DOMAIN c.a : c.a[k] <= 255
    /\ c.n <= 32

\* x & mask(L), mask(L) the word with its top L bits set.
TopBits(x, L) == {b \in x : b >= 32 - L}

PrefixOf(c) == [net |-> TopBits(Uint32(c.a), c.n), len |-> c.n]
RegAdd(reg, c, v) == IF WellFormedIPv4(c) THEN MapStore(reg, PrefixOf(c), v) ELSE reg
RegDel(reg, c) == IF WellFormedIPv4(c) THEN MapDelete(reg, PrefixOf(c)) ELSE reg

\* An AddRoute of a registered prefix with another value overwrites it.
OverAdd(over, reg, c, v) ==
    IF WellFormedIPv4(c) /\ PrefixOf(c) \in DOMAIN reg /\ reg[PrefixOf(c)] # v
    THEN {PrefixOf(c)} ELSE over
OverDel(over, c) == IF WellFormedIPv4(c) THEN over \ {PrefixOf(c)} ELSE over

\* c is a well-formed IPv4 prefix that is registered now.
Known(c) == WellFormedIPv4(c) /\ PrefixOf(c) \in DOMAIN registered

\* c1 and c2 parse and select the same slot.
SameSlot(c1, c2) ==
    LET r1 == ParseCIDR(c1)
        r2 == ParseCIDR(c2)
    IN  /\ ~r1.err /\ ~r2.err
        /\ SlotOf(MaskSize(r1.Mask)) = SlotOf(MaskSize(r2.Mask))

\* p begins DelRoute(c) on the flat table: every AddRoute, running or
\* returned, of a prefix of the same slot now has a DelRoute on its slot
\* begun after it.
DelBegins(p, c) ==
    [q \in Procs |->
        IF q = p
        THEN [op |-> "DelRoute", network |-> c, v |-> "nil", ip |-> {},
              known |-> Known(c), delSince |-> FALSE]
        ELSE IF call[q].op = "AddRoute" /\ SameSlot(call[q].network, c)
             THEN [call[q] EXCEPT !.delSince = TRUE]
             ELSE call[q]]

\* ------------------------------------------------------------ calls and returns
CanStep(p) == p \in procs /\ crashed = "no"

Return(p, r) ==
    /\ pc' = [pc EXCEPT ![p] = "idle"]
    /\ ret' = [ret EXCEPT ![p] = r]
    /\ loc' = [loc EXCEPT ![p] = Loc0]
    /\ crashed' = crashed

\* A run-time panic (index out of range): nothing recovers it, the process dies.
Panic(p) ==
    /\ pc' = [pc EXCEPT ![p] = "panic"]
    /\ crashed' = "panic"
    /\ UNCHANGED <<ret, loc>>

\* fatal error (sync: Unlock of unlocked RWMutex): the process dies.
Fatal(p) ==
    /\ pc' = [pc EXCEPT ![p] = "fatal"]
    /\ crashed' = "fatal"
    /\ UNCHANGED <<ret, loc>>

Goto(p, l, locals) ==
    /\ pc' = [pc EXCEPT ![p] = l]
    /\ loc' = [loc EXCEPT ![p] = locals]
    /\ UNCHANGED <<ret, crashed>>

\* ------------------------------------------------------------ route.AddRoute
FlatFrame == UNCHANGED <<pkg, procs, inputs, rt2, secMu>>

\* route.go 49-57: parse, return the parse error, else compute slot and net.
\* The index rt.rts[slot] of line 58 panics when slot is not in 0..31.
AddRouteCall(p, c, v) ==
    /\ pkg = "route" /\ CanStep(p) /\ pc[p] = "idle"
    /\ call' = [call EXCEPT ![p] = [op |-> "AddRoute", network |-> c, v |-> v, ip |-> {},
                                 known |-> Known(c), delSince |-> FALSE]]
    /\ LET r == ParseCIDR(c)
       IN  IF r.err THEN Return(p, "InvalidInput")
           ELSE LET slot == SlotOf(MaskSize(r.Mask))
                IN  IF slot \notin 0 .. (maskMaxLen - 1) THEN Panic(p)
                    ELSE Goto(p, "a58", [Loc0 EXCEPT !.slot = slot, !.net = Uint32(r.IP)])
    /\ UNCHANGED <<rt, mu, rteMu, registered, overwrote>>
    /\ FlatFrame

\* route.go 58: rt.rts[slot].Lock()
AddLockSlot(p) ==
    /\ pkg = "route" /\ CanStep(p) /\ pc[p] = "a58"
    /\ CanLock(rteMu[loc[p].slot])
    /\ rteMu' = [rteMu EXCEPT ![loc[p].slot] = Lock(@)]
    /\ Goto(p, "a59", loc[p])
    /\ UNCHANGED <<rt, mu, call, registered, overwrote>>
    /\ FlatFrame

\* route.go 59-66: n := len; store; Unlock; return nil when n > 0.
AddStoreStep(p) ==
    /\ pkg = "route" /\ CanStep(p) /\ pc[p] = "a59"
    /\ LET n == MapLen(rt.rts[loc[p].slot].rtHash)
       IN  IF n > 0 THEN Return(p, "ok")
           ELSE Goto(p, "a69", [loc[p] EXCEPT !.n = n])
    /\ rt' = AddStore(rt, loc[p].slot, loc[p].net, call[p].v)
    /\ rteMu' = [rteMu EXCEPT ![loc[p].slot] = Unlock(@)]
    /\ registered' = RegAdd(registered, call[p].network, call[p].v)
    /\ overwrote' = OverAdd(overwrote, registered, call[p].network, call[p].v)
    /\ UNCHANGED <<mu, call>>
    /\ FlatFrame

\* route.go 69: rt.Lock()
AddLockTable(p) ==
    /\ pkg = "route" /\ CanStep(p) /\ pc[p] = "a69"
    /\ CanLock(mu)
    /\ mu' = Lock(mu)
    /\ Goto(p, "a70", loc[p])
    /\ UNCHANGED <<rt, rteMu, call, registered, overwrote>>
    /\ FlatFrame

\* route.go 70: len(rt.rts[slot].rtHash), read under the table's lock and
\* not under the slot's: the map may be written before and after the read.
AddReadLen(p) ==
    /\ pkg = "route" /\ CanStep(p) /\ pc[p] = "a70"
    /\ Goto(p, "a71", [loc[p] EXCEPT !.n = MapLen(rt.rts[loc[p].slot].rtHash)])
    /\ UNCHANGED <<rt, mu, rteMu, call, registered, overwrote>>
    /\ FlatFrame

\* route.go 70-74: set the slot's bit when the length read is not 0; Unlock.
AddSetBitStep(p) ==
    /\ pkg = "route" /\ CanStep(p) /\ pc[p] = "a71"
    /\ rt' = AddSetBit(rt, loc[p].slot, loc[p].n)
    /\ mu' = Unlock(mu)
    /\ Return(p, "ok")
    /\ UNCHANGED <<rteMu, call, registered, overwrote>>
    /\ FlatFrame

\* ------------------------------------------------------------ route.DelRoute
\* route.go 77-85
DelRouteCall(p, c) ==
    /\ pkg = "route" /\ CanStep(p) /\ pc[p] = "idle"
    /\ call' = DelBegins(p, c)
    /\ LET r == ParseCIDR(c)
       IN  IF r.err THEN Return(p, "InvalidInput")
           ELSE LET slot == SlotOf(MaskSize(r.Mask))
                IN  IF slot \notin 0 .. (maskMaxLen - 1) THEN Panic(p)
                    ELSE Goto(p, "d86", [Loc0 EXCEPT !.slot = slot, !.net = Uint32(r.IP)])
    /\ UNCHANGED <<rt, mu, rteMu, registered, overwrote>>
    /\ FlatFrame

\* route.go 86: rt.rts[slot].Lock()
DelLockSlot(p) ==
    /\ pkg = "route" /\ CanStep(p) /\ pc[p] = "d86"
    /\ CanLock(rteMu[loc[p].slot])
    /\ rteMu' = [rteMu EXCEPT ![loc[p].slot] = Lock(@)]
    /\ Goto(p, "d87", loc[p])
    /\ UNCHANGED <<rt, mu, call, registered, overwrote>>
    /\ FlatFrame

\* route.go 87-88: delete; Unlock.
DelStoreStep(p) ==
    /\ pkg = "route" /\ CanStep(p) /\ pc[p] = "d87"
    /\ rt' = DelStore(rt, loc[p].slot, loc[p].net)
    /\ rteMu' = [rteMu EXCEPT ![loc[p].slot] = Unlock(@)]
    /\ registered' = RegDel(registered, call[p].network)
    /\ overwrote' = OverDel(overwrote, call[p].network)
    /\ Goto(p, "d91", loc[p])
    /\ UNCHANGED <<mu, call>>
    /\ FlatFrame

\* route.go 91: rt.Lock()
DelLockTable(p) ==
    /\ pkg = "route" /\ CanStep(p) /\ pc[p] = "d91"
    /\ CanLock(mu)
    /\ mu' = Lock(mu)
    /\ Goto(p, "d92", loc[p])
    /\ UNCHANGED <<rt, rteMu, call, registered, overwrote>>
    /\ FlatFrame

\* route.go 92: len(rt.rts[slot].rtHash), read under the table's lock and
\* not under the slot's.
DelReadLen(p) ==
    /\ pkg = "route" /\ CanStep(p) /\ pc[p] = "d92"
    /\ Goto(p, "d93", [loc[p] EXCEPT !.n = MapLen(rt.rts[loc[p].slot].rtHash)])
    /\ UNCHANGED <<rt, mu, rteMu, call, registered, overwrote>>
    /\ FlatFrame

\* route.go 92-96: clear the slot's bit when the length read is 0; Unlock.
DelClearBitStep(p) ==
    /\ pkg = "route" /\ CanStep(p) /\ pc[p] = "d93"
    /\ rt' = DelClearBit(rt, loc[p].slot, loc[p].n)
    /\ mu' = Unlock(mu)
    /\ Return(p, "ok")
    /\ UNCHANGED <<rteMu, call, registered, overwrote>>
    /\ FlatFrame

\* ------------------------------------------------------------ route.RouteLookup
\* route.go 99
RouteLookupCall(p, ip) ==
    /\ pkg = "route" /\ CanStep(p) /\ pc[p] = "idle"
    /\ call' = [call EXCEPT ![p] = [op |-> "RouteLookup", network |-> NoCidr, v |-> "nil", ip |-> ip, known |-> FALSE, delSince |-> FALSE]]
    /\ Goto(p, "l100", Loc0)
    /\ UNCHANGED <<rt, mu, rteMu, registered, overwrote>>
    /\ FlatFrame

\* route.go 100: rt.RLock()
LookupRLock(p) ==
    /\ pkg = "route" /\ CanStep(p) /\ pc[p] = "l100"
    /\ CanRLock(mu)
    /\ mu' = RLock(mu)
    /\ Goto(p, "l101", loc[p])
    /\ UNCHANGED <<rt, rteMu, call, registered, overwrote>>
    /\ FlatFrame

\* route.go 101-102: rtMask := rt.slotMask; rt.RUnlock()
LookupSnapshot(p) ==
    /\ pkg = "route" /\ CanStep(p) /\ pc[p] = "l101"
    /\ mu' = RUnlock(mu)
    /\ Goto(p, "l103", [loc[p] EXCEPT !.m = rt.slotMask, !.i = 0])
    /\ UNCHANGED <<rt, rteMu, call, registered, overwrote>>
    /\ FlatFrame

\* route.go 103-110, 119: the loop up to its end (return nil) or to the
\* next slot whose bit is set in rtMask.
LookupScan(p) ==
    /\ pkg = "route" /\ CanStep(p) /\ pc[p] = "l103"
    /\ LET s == SkipClear(loc[p].i, loc[p].m)
       IN  IF s.i >= maskMaxLen \/ s.m = {} THEN Return(p, "nil")
           ELSE Goto(p, "l111", [loc[p] EXCEPT !.i = s.i, !.m = s.m])
    /\ UNCHANGED <<rt, mu, rteMu, call, registered, overwrote>>
    /\ FlatFrame

\* route.go 111: rt.rts[i].RLock()
LookupRLockSlot(p) ==
    /\ pkg = "route" /\ CanStep(p) /\ pc[p] = "l111"
    /\ CanRLock(rteMu[loc[p].i])
    /\ rteMu' = [rteMu EXCEPT ![loc[p].i] = RLock(@)]
    /\ Goto(p, "l112", loc[p])
    /\ UNCHANGED <<rt, mu, call, registered, overwrote>>
    /\ FlatFrame

\* ip & NetWork(rt.rts[i].mask)
MaskedKey(ip, mask) == ip \cap mask

\* route.go 110, 112-119: probe the slot; RUnlock; return the value on a
\* hit, else shift rtMask and go on.
LookupProbe(p) ==
    /\ pkg = "route" /\ CanStep(p) /\ pc[p] = "l112"
    /\ LET e   == rt.rts[loc[p].i]
           net == MaskedKey(call[p].ip, e.mask)
       IN  IF net \in DOMAIN e.rtHash THEN Return(p, e.rtHash[net])
           ELSE Goto(p, "l103", [loc[p] EXCEPT !.i = @ + 1, !.m = Shr1(@)])
    /\ rteMu' = [rteMu EXCEPT ![loc[p].i] = RUnlock(@)]
    /\ UNCHANGED <<rt, mu, call, registered, overwrote>>
    /\ FlatFrame

NextFlat ==
    \E p \in Procs :
        \/ \E c \in inputs.cidrs, v \in inputs.vals : AddRouteCall(p, c, v)
        \/ AddLockSlot(p)
        \/ AddStoreStep(p)
        \/ AddLockTable(p)
        \/ AddReadLen(p)
        \/ AddSetBitStep(p)
        \/ \E c \in inputs.cidrs : DelRouteCall(p, c)
        \/ DelLockSlot(p)
        \/ DelStoreStep(p)
        \/ DelLockTable(p)
        \/ DelReadLen(p)
        \/ DelClearBitStep(p)
        \/ \E ip \in inputs.ips : RouteLookupCall(p, ip)
        \/ LookupRLock(p)
        \/ LookupSnapshot(p)
        \/ LookupScan(p)
        \/ LookupRLockSlot(p)
        \/ LookupProbe(p)

\* One goroutine calling into the flat table: the calls run one at a time.
InitFlatSeq == InitWith("route", {1}, FlatSeqInputs)
SpecFlatSeq == InitFlatSeq /\ [][NextFlat]_vars

\* ------------------------------------------------------------ routev2.AddRoute
V2Frame == UNCHANGED <<pkg, procs, inputs, rt, mu, rteMu>>

\* part_001 70-83: parse, return the parse error, else compute slot, net,
\* ipID and secID.  The index rt.rts[ipID] of line 82 panics when ipID is
\* not in 0..3; secID is always in 0..7.
V2AddRouteCall(p, c, v) ==
    /\ pkg = "routev2" /\ CanStep(p) /\ pc[p] = "idle"
    /\ call' = [call EXCEPT ![p] = [op |-> "AddRoute", network |-> c, v |-> v, ip |-> {},
                                 known |-> Known(c), delSince |-> FALSE]]
    /\ LET r == ParseCIDR(c)
       IN  IF r.err THEN Return(p, "InvalidInput")
           ELSE LET slot == SlotOf(MaskSize(r.Mask))
                IN  IF IpID(slot) \notin 0 .. (IpSection - 1) THEN Panic(p)
                    ELSE Goto(p, "a85", [Loc0 EXCEPT !.slot = slot, !.net = Uint32(r.IP)])
    /\ UNCHANGED <<rt2, secMu, registered, overwrote>>
    /\ V2Frame

\* part_001 85: sec.Lock()
V2AddLock(p) ==
    /\ pkg = "routev2" /\ CanStep(p) /\ pc[p] = "a85"
    /\ CanLock(secMu[IpID(loc[p].slot)])
    /\ secMu' = [secMu EXCEPT ![IpID(loc[p].slot)] = Lock(@)]
    /\ Goto(p, "a86", loc[p])
    /\ UNCHANGED <<rt2, call, registered, overwrote>>
    /\ V2Frame

\* part_001 86-89: store, set the bit, Unlock, return nil.
V2AddStoreStep(p) ==
    /\ pkg = "routev2" /\ CanStep(p) /\ pc[p] = "a86"
    /\ rt2' = V2AddStore(rt2, IpID(loc[p].slot), SecID(loc[p].slot), loc[p].net, call[p].v)
    /\ secMu' = [secMu EXCEPT ![IpID(loc[p].slot)] = Unlock(@)]
    /\ registered' = RegAdd(registered, call[p].network, call[p].v)
    /\ overwrote' = OverAdd(overwrote, registered, call[p].network, call[p].v)
    /\ Return(p, "ok")
    /\ UNCHANGED <<call>>
    /\ V2Frame

\* ------------------------------------------------------------ routev2.DelRoute
\* part_001 92-105
V2DelRouteCall(p, c) ==
    /\ pkg = "routev2" /\ CanStep(p) /\ pc[p] = "idle"
    /\ call' = [call EXCEPT ![p] = [op |-> "DelRoute", network |-> c, v |-> "nil", ip |-> {},
                                 known |-> Known(c), delSince |-> FALSE]]
    /\ LET r == ParseCIDR(c)
       IN  IF r.err THEN Return(p, "InvalidInput")
           ELSE LET slot == SlotOf(MaskSize(r.Mask))
                IN  IF IpID(slot) \notin 0 .. (IpSection - 1) THEN Panic(p)
                    ELSE Goto(p, "d107", [Loc0 EXCEPT !.slot = slot, !.net = Uint32(r.IP)])
    /\ UNCHANGED <<rt2, secMu, registered, overwrote>>
    /\ V2Frame

\* part_001 107: sec.Lock()
V2DelLock(p) ==
    /\ pkg = "routev2" /\ CanStep(p) /\ pc[p] = "d107"
    /\ CanLock(secMu[IpID(loc[p].slot)])
    /\ secMu' = [secMu EXCEPT ![IpID(loc[p].slot)] = Lock(@)]
    /\ Goto(p, "d108", loc[p])
    /\ UNCHANGED <<rt2, call, registered, overwrote>>
    /\ V2Frame

\* part_001 108-113: delete, clear the bit of an empty slot, Unlock, return nil.
V2DelStoreStep(p) ==
    /\ pkg = "routev2" /\ CanStep(p) /\ pc[p] = "d108"
    /\ rt2' = V2DelStore(rt2, IpID(loc[p].slot), SecID(loc[p].slot), loc[p].net)
    /\ secMu' = [secMu EXCEPT ![IpID(loc[p].slot)] = Unlock(@)]
    /\ registered' = RegDel(registered, call[p].network)
    /\ overwrote' = OverDel(overwrote, call[p].network)
    /\ Return(p, "ok")
    /\ UNCHANGED <<call>>
    /\ V2Frame

\* ------------------------------------------------------------ routev2.RouteLookup
\* part_001 116-122
V2RouteLookupCall(p, ip) ==
    /\ pkg = "routev2" /\ CanStep(p) /\ pc[p] = "idle"
    /\ call' = [call EXCEPT ![p] = [op |-> "RouteLookup", network |-> NoCidr, v |-> "nil", ip |-> ip, known |-> FALSE, delSince |-> FALSE]]
    /\ Goto(p, "l123", Loc0)
    /\ UNCHANGED <<rt2, secMu, registered, overwrote>>
    /\ V2Frame

\* part_001 123: sec.RLock()
V2LookupRLock(p) ==
    /\ pkg = "routev2" /\ CanStep(p) /\ pc[p] = "l123"
    /\ CanRLock(secMu[loc[p].i])
    /\ secMu[loc[p].i].r < MaxReaders
    /\ secMu' = [secMu EXCEPT ![loc[p].i] = RLock(@)]
    /\ Goto(p, "l124", loc[p])
    /\ UNCHANGED <<rt2, call, registered, overwrote>>
    /\ V2Frame

\* A goroutine inside sec.Lock() of section i, waiting for the readers.
WriterWaits(i) ==
    \E q \in procs : pc[q] \in {"a85", "d107"} /\ IpID(loc[q].slot) = i

\* part_001 124-125: bitMask = sec.slotMask; sec.Unlock().
\* The lock is held for reading, not for writing.  sync.RWMutex.Unlock then
\* ends the process with "fatal error: sync: Unlock of unlocked RWMutex",
\* unless a writer has announced itself inside Lock() in the meantime: in
\* that case Unlock takes the writer's announcement for its own, returns,
\* and the read lock it did not release stays counted for ever.
V2LookupSnapshot(p) ==
    /\ pkg = "routev2" /\ CanStep(p) /\ pc[p] = "l124"
    /\ \/ Fatal(p)
       \/ /\ WriterWaits(loc[p].i)
          /\ Goto(p, "l126", [loc[p] EXCEPT !.m = rt2.rts[loc[p].i].slotMask, !.j = 0])
    /\ UNCHANGED <<rt2, secMu, call, registered, overwrote>>
    /\ V2Frame

\* part_001 126-139: one iteration of the loop over the section's slots.
V2LookupScan(p) ==
    /\ pkg = "routev2" /\ CanStep(p) /\ pc[p] = "l126"
    /\ LET i == loc[p].i
           j == loc[p].j
           m == loc[p].m
       IN  IF j >= SectionSize \/ m = {}
           THEN IF i + 1 >= IpSection THEN Return(p, "nil")
                ELSE Goto(p, "l123", [Loc0 EXCEPT !.i = i + 1])
           ELSE LET rte == rt2.rts[i].rtSec[j]
                    net == MaskedKey(call[p].ip, rte.mask)
                IN  IF 0 \in m /\ net \in DOMAIN rte.rtHash
                    THEN Return(p, rte.rtHash[net])
                    ELSE Goto(p, "l126", [loc[p] EXCEPT !.j = j + 1, !.m = Shr1(m)])
    /\ UNCHANGED <<rt2, secMu, call, registered, overwrote>>
    /\ V2Frame

NextV2 ==
    \E p \in Procs :
        \/ \E c \in inputs.cidrs, v \in inputs.vals : V2AddRouteCall(p, c, v)
        \/ V2AddLock(p)
        \/ V2AddStoreStep(p)
        \/ \E c \in inputs.cidrs : V2DelRouteCall(p, c)
        \/ V2DelLock(p)
        \/ V2DelStoreStep(p)
        \/ \E ip \in inputs.ips : V2RouteLookupCall(p, ip)
        \/ V2LookupRLock(p)
        \/ V2LookupSnapshot(p)
        \/ V2LookupScan(p)

\* Goroutines calling into the sectioned table concurrently.
InitV2 == InitWith("routev2", Procs, V2Inputs)
SpecV2 == InitV2 /\ [][NextV2]_vars

\* Goroutines calling concurrently into a table of either package.
Init == \E k \in {"route", "routev2"} : InitWith(k, Procs, SmallInputs)
Next == NextFlat \/ NextV2
Spec == Init /\ [][Next]_vars

\* Goroutines that only add and delete routes, in a table of either package.
NextAddDel ==
    \E p \in Procs :
        \/ \E c \in inputs.cidrs, v \in inputs.vals : AddRouteCall(p, c, v)
        \/ AddLockSlot(p)
        \/ AddStoreStep(p)
        \/ AddLockTable(p)
        \/ AddReadLen(p)
        \/ AddSetBitStep(p)
        \/ \E c \in inputs.cidrs : DelRouteCall(p, c)
        \/ DelLockSlot(p)
        \/ DelStoreStep(p)
        \/ DelLockTable(p)
        \/ DelReadLen(p)
        \/ DelClearBitStep(p)
        \/ \E c \in inputs.cidrs, v \in inputs.vals : V2AddRouteCall(p, c, v)
        \/ V2AddLock(p)
        \/ V2AddStoreStep(p)
        \/ \E c \in inputs.cidrs : V2DelRouteCall(p, c)
        \/ V2DelLock(p)
        \/ V2DelStoreStep(p)
InitAddDel == \E k \in {"route", "routev2"} : InitWith(k, Procs, AddDelInputs)
SpecAddDel == InitAddDel /\ [][NextAddDel]_vars

\* Goroutines calling into the flat table concurrently.
InitFlat == InitWith("route", Procs, FlatInputs)
SpecFlat == InitFlat /\ [][NextFlat]_vars

\* Goroutines that only add and delete routes in the sectioned table.
NextV2AddDel ==
    \E p \in Procs :
        \/ \E c \in inputs.cidrs, v \in inputs.vals : V2AddRouteCall(p, c, v)
        \/ V2AddLock(p)
        \/ V2AddStoreStep(p)
        \/ \E c \in inputs.cidrs : V2DelRouteCall(p, c)
        \/ V2DelLock(p)
        \/ V2DelStoreStep(p)
InitV2AddDel == InitWith("routev2", Procs, V2AddDelInputs)
SpecV2AddDel == InitV2AddDel /\ [][NextV2AddDel]_vars

\* ------------------------------------------------------------ what the claims speak of
\* p's last call has returned.
Completed(p, op) == pc[p] = "idle" /\ call[p].op = op
IsWrite(p) == call[p].op \in {"AddRoute", "DelRoute"}

\* The registered prefixes that contain address x, and the value of the
\* longest of them ("nil" when there is none).
Matches(reg, x) == {k \in DOMAIN reg : TopBits(x, k.len) = k.net}
LongestMatch(reg, x) ==
    IF Matches(reg, x) = {} THEN "nil"
    ELSE reg[CHOOSE k \in Matches(reg, x) : \A k2 \in Matches(reg, x) : k2.len <= k.len]

\* The number of entries the flat table holds.
RECURSIVE FlatEntriesFrom(_)
FlatEntriesFrom(i) ==
    IF i >= maskMaxLen THEN 0 ELSE MapLen(rt.rts[i].rtHash) + FlatEntriesFrom(i + 1)
FlatEntries == FlatEntriesFrom(0)

\* C1 (flat table, calls run one at a time): a RouteLookup that has returned
\* returned the value of the longest registered prefix containing its
\* address, and nil when no registered prefix contains it.
C1_LongestPrefixMatch ==
    \A p \in procs :
        Completed(p, "RouteLookup") => ret[p] = LongestMatch(registered, call[p].ip)

\* C2 (sectioned table, any interleaving): a RouteLookup about to handle slot
\* j of its section finds the slot's map non-empty when bit 0 of its shifted
\* snapshot is set, and empty when it is clear; when the snapshot is 0 it
\* leaves the loop, and every slot it thereby skips is empty.
SlotEmpty(i, j) == MapLen(rt2.rts[i].rtSec[j].rtHash) = 0
C2_NoTornState ==
    \A p \in procs :
        (pc[p] = "l126" /\ loc[p].j < SectionSize) =>
            LET i == loc[p].i
                j == loc[p].j
                m == loc[p].m
            IN  /\ (0 \in m) => ~SlotEmpty(i, j)
                /\ (m # {} /\ 0 \notin m) => SlotEmpty(i, j)
                /\ (m = {}) => \A k \in j .. (SectionSize - 1) : SlotEmpty(i, k)

\* C2's case: a lookup that got past sec.Unlock() has skipped two empty
\* slots and is about to probe a slot whose bit is set in its snapshot.
C2_Witness ==
    \E p \in procs :
        /\ pc[p] = "l126" /\ loc[p].j = 2 /\ 0 \in loc[p].m
        /\ ~SlotEmpty(loc[p].i, loc[p].j)

\* C3 (sectioned table): no RouteLookup ends the process, and each read lock
\* counted on a section's lock belongs to a RouteLookup that is between its
\* RLock and its unlock of that section, so a lookup that has returned holds
\* no lock and writers can lock the section again.
ReadersOf(i) == {q \in procs : pc[q] = "l124" /\ loc[q].i = i}
C3_LookupReturnsAndReleases ==
    /\ crashed # "fatal"
    /\ \A i \in 0 .. (IpSection - 1) : secMu[i].r = Cardinality(ReadersOf(i))

\* C4 (flat table): AddRoute("0.0.0.0/0", V) does not end the process and
\* returns nil, and while 0.0.0.0/0 is registered every RouteLookup that has
\* returned returned the value of the longest registered match, never nil.
C4_DefaultRoute ==
    \A p \in procs :
        /\ (call[p].op = "AddRoute" /\ call[p].network = Default0) =>
              /\ pc[p] # "panic"
              /\ pc[p] = "idle" => ret[p] = "ok"
        /\ (Completed(p, "RouteLookup") /\ PrefixOf(Default0) \in DOMAIN registered) =>
              /\ ret[p] # "nil"
              /\ ret[p] = LongestMatch(registered, call[p].ip)

\* C5 (sectioned table): an AddRoute or DelRoute of a well-formed IPv4 CIDR
\* A.B.C.D/N does not index out of range, and the slot it selects holds the
\* mask precomputed for the length N.
C5_EveryLengthServed ==
    \A p \in procs :
        (IsWrite(p) /\ WellFormedIPv4(call[p].network)) =>
            /\ pc[p] # "panic"
            /\ pc[p] \in {"a85", "a86", "d107", "d108"} =>
                  rt2.rts[IpID(loc[p].slot)].rtSec[SecID(loc[p].slot)].mask
                      = V2Mask(maskMaxLen - call[p].network.n)

\* C6 (flat table, calls run one at a time): no step of a DelRoute of a
\* well-formed IPv4 prefix that is not registered ends the process or changes
\* a slot's map or the slotMask, and the call returns nil.
C6_IdempotentDelete ==
    [][\A p \in procs :
          (/\ call'[p].op = "DelRoute"
           /\ WellFormedIPv4(call'[p].network)
           /\ ~call'[p].known) =>
              /\ rt' = rt
              /\ crashed' = "no"
              /\ pc'[p] = "idle" => ret'[p] = "ok"]_vars

\* C7 (flat table, calls run one at a time): after an AddRoute has
\* overwritten the value of a registered prefix P, P's slot holds the entry
\* for P (a map holds one entry per key) with the new value, and a
\* RouteLookup of an address whose longest registered match is P returns the
\* new value.
C7_Overwrite ==
    \A k \in overwrote :
        /\ k \in DOMAIN registered
        /\ k.net \in DOMAIN rt.rts[SlotOf(k.len)].rtHash
        /\ rt.rts[SlotOf(k.len)].rtHash[k.net] = registered[k]
        /\ \A p \in procs :
              (/\ Completed(p, "RouteLookup")
               /\ k \in Matches(registered, call[p].ip)
               /\ \A k2 \in Matches(registered, call[p].ip) : k2.len <= k.len) =>
                  ret[p] = registered[k]

\* C8 (flat table): when the only route of the table is A/32 -> V, a
\* RouteLookup(X) that has returned returned V if X = A and nil otherwise.
OnlyRoute(k) == DOMAIN registered = {k} /\ FlatEntries = 1
C8_HostRouteExact ==
    \A p \in procs : \A k \in DOMAIN registered :
        (Completed(p, "RouteLookup") /\ k.len = 32 /\ OnlyRoute(k)) =>
            ret[p] = IF call[p].ip = k.net THEN registered[k] ELSE "nil"

\* C8's case: with 10.0.0.5/32 the only route, RouteLookup(10.0.0.5) has
\* returned its value.
C8_Witness ==
    \E p \in procs :
        /\ Completed(p, "RouteLookup") /\ call[p].ip = A_10_0_0_5
        /\ OnlyRoute(PrefixOf(Host32))
        /\ ret[p] = registered[PrefixOf(Host32)]

\* C9 (flat table): an AddRoute or DelRoute of an IPv6 CIDR returns
\* InvalidInput at once: it is never past the parse, never ends the process,
\* and stores nothing.
C9_RejectIPv6 ==
    \A p \in procs :
        (IsWrite(p) /\ call[p].network.fam = "ip6") =>
            /\ pc[p] = "idle"
            /\ ret[p] = "InvalidInput"
            /\ FlatEntries = Cardinality(DOMAIN registered)

\* A CIDR text that does not parse: malformed, an octet above 255, or a
\* prefix length above the address length.
IllFormed(c) ==
    \/ c.fam = "junk"
    \/ c.fam = "ip4" /\ ((\E k \in DOMAIN c.a : c.a[k] > 255) \/ c.n > 32)
    \/ c.fam = "ip6" /\ c.n > 128

\* C10 (both tables, any interleaving): the step in which a goroutine calls
\* AddRoute or DelRoute with a CIDR text that does not parse returns
\* InvalidInput in that same step, takes no lock, and leaves every map,
\* every slotMask and every lock as it was.
C10_ParseErrorNoEffect ==
    [][\A p \in procs :
          (/\ pc[p] = "idle"
           /\ <<pc[p], call[p], ret[p]>>' # <<pc[p], call[p], ret[p]>>
           /\ call'[p].op \in {"AddRoute", "DelRoute"}
           /\ IllFormed(call'[p].network)) =>
              /\ pc'[p] = "idle"
              /\ ret'[p] = "InvalidInput"
              /\ UNCHANGED <<rt, rt2, mu, rteMu, secMu, crashed, registered>>]_vars

\* C10's case: a call with an ill-formed CIDR has returned InvalidInput while
\* the table holds a route and another goroutine holds a lock.
C10_Witness ==
    \E p \in procs :
        /\ pc[p] = "idle" /\ IsWrite(p) /\ IllFormed(call[p].network)
        /\ ret[p] = "InvalidInput"
        /\ DOMAIN registered # {}
        /\ \E q \in procs : pc[q] \in {"a59", "a70", "a71", "d87", "d92", "d93", "a86", "d108"}

\* C11 (sectioned table, any interleaving of AddRoute and DelRoute): whenever
\* a section's lock is not held for writing, bit j of the section's slotMask
\* is set if and only if the map of slot j of the section is not empty.
C11_SectionBitIffNonEmpty ==
    \A i \in 0 .. (IpSection - 1) :
        ~secMu[i].w =>
            \A j \in 0 .. (SectionSize - 1) :
                (j \in rt2.rts[i].slotMask) <=> ~SlotEmpty(i, j)

\* C11's case: one DelRoute has removed 10.0.0.4/32 and left 10.0.0.5/32 in
\* the same slot, whose bit is still set; another has removed the only route
\* of its slot, 10.0.0.0/28, whose bit is clear; neither section is locked.
C11_Witness ==
    /\ ~secMu[0].w /\ ~secMu[1].w
    /\ \E p \in procs :
          /\ Completed(p, "DelRoute") /\ call[p].known /\ call[p].network = Host32b
          /\ ~SlotEmpty(0, 0) /\ 0 \in rt2.rts[0].slotMask
    /\ \E q \in procs :
          /\ Completed(q, "DelRoute") /\ call[q].known /\ call[q].network = Net28
          /\ SlotEmpty(1, 4) /\ 4 \notin rt2.rts[1].slotMask

\* C12 (flat table, any interleaving): whenever neither the table's lock nor
\* any slot's lock is held for writing, bit s of slotMask is set if and only
\* if the map of slot s is not empty.
FlatSlotEmpty(s) == MapLen(rt.rts[s].rtHash) = 0
NoWriteLockHeld == ~mu.w /\ \A s \in 0 .. (maskMaxLen - 1) : ~rteMu[s].w
C12_FlatBitIffNonEmpty ==
    NoWriteLockHeld =>
        \A s \in 0 .. (maskMaxLen - 1) : (s \in rt.slotMask) <=> ~FlatSlotEmpty(s)

\* p is about to read the map of slot s of the flat table: the len() of
\* route.go 70 and 92, made under the table's lock, or the probe of line 112,
\* made under the slot's lock.
FlatReads(p, s) ==
    \/ pc[p] \in {"a70", "d92"} /\ loc[p].slot = s
    \/ pc[p] = "l112" /\ loc[p].i = s

\* q is inside the critical section that writes the map of slot s.
FlatWrites(q, s) == pc[q] \in {"a59", "d87"} /\ loc[q].slot = s

\* The same for section i of the sectioned table: the probe of part_001 133,
\* and the critical sections of AddRoute and DelRoute.
V2Reads(p, i) == pc[p] = "l126" /\ loc[p].i = i
V2Writes(q, i) == pc[q] \in {"a86", "d108"} /\ IpID(loc[q].slot) = i

\* C13 (any interleaving of AddRoute, DelRoute and RouteLookup): no goroutine
\* is about to read a slot's map while another goroutine is inside the
\* critical section that writes the same map.
C13_NoMapRace ==
    \A p \in procs : \A q \in procs \ {p} :
        /\ pkg = "route" =>
              \A s \in 0 .. (maskMaxLen - 1) : ~(FlatReads(p, s) /\ FlatWrites(q, s))
        /\ pkg = "routev2" =>
              \A i \in 0 .. (IpSection - 1) : ~(V2Reads(p, i) /\ V2Writes(q, i))

\* The slot that AddRoute or DelRoute of the CIDR text c selects.
CallSlot(c) == SlotOf(MaskSize(ParseCIDR(c).Mask))

\* C14 (flat table, any interleaving): when an AddRoute has returned nil and
\* no DelRoute on its prefix's slot has begun since that AddRoute began, the
\* bit of that slot is set in slotMask.
C14_VisibleOnReturn ==
    \A p \in procs :
        (/\ Completed(p, "AddRoute") /\ ret[p] = "ok"
         /\ ~call[p].delSince) =>
            CallSlot(call[p].network) \in rt.slotMask

\* The goroutines inside a critical section of each lock, by the place they
\* are at: between Lock and Unlock, or between RLock and the unlock that
\* follows it.
TableWriters == {p \in procs : pc[p] \in {"a70", "a71", "d92", "d93"}}
TableReaders == {p \in procs : pc[p] = "l101"}
SlotWriters(s) == {p \in procs : pc[p] \in {"a59", "d87"} /\ loc[p].slot = s}
SlotReaders(s) == {p \in procs : pc[p] = "l112" /\ loc[p].i = s}
SecWriters(i) == {p \in procs : pc[p] \in {"a86", "d108"} /\ IpID(loc[p].slot) = i}
SecReaders(i) == {p \in procs : pc[p] = "l124" /\ loc[p].i = i}

\* Lock m is held exactly by the goroutines of ws (for writing) and rs (for
\* reading).
HeldExactlyBy(m, ws, rs) == (m.w <=> ws # {}) /\ m.r = Cardinality(rs)

\* C15 (both tables, any interleaving): every lock is held exactly by the
\* goroutines that are inside its critical section, one lock per goroutine:
\* a goroutine has released its lock when it goes on to the next lock or
\* returns, so a goroutine that waits for a lock waits for a goroutine that
\* is itself not waiting.  (Stated of the runs in which the process is alive.)
C15_OneLockAtATime ==
    crashed = "no" =>
    /\ pkg = "route" =>
          /\ HeldExactlyBy(mu, TableWriters, TableReaders)
          /\ \A s \in 0 .. (maskMaxLen - 1) :
                HeldExactlyBy(rteMu[s], SlotWriters(s), SlotReaders(s))
    /\ pkg = "routev2" =>
          \A i \in 0 .. (IpSection - 1) :
              HeldExactlyBy(secMu[i], SecWriters(i), SecReaders(i))

\* C16 (flat table, after any sequence of AddRoute and DelRoute): every key k
\* stored in a slot's map satisfies k & mask = k for the mask that
\* NewRouteTable stored in that slot.
C16_KeysPreMasked ==
    \A s \in 0 .. (maskMaxLen - 1) :
        \A k \in DOMAIN rt.rts[s].rtHash : MaskedKey(k, rt.rts[s].mask) = k

\* The word with exactly its top L bits set: 0xFFFFFFFF << (32 - L) in uint32.
TopMask(L) == {b \in Bits32 : b >= 32 - L}

\* C17 (flat table): the slot of each prefix length L in 1..32, slot
\* maskMaxLen - L, holds the mask with exactly the top L bits set.
C17_MaskIsTopBits ==
    \A L \in 1 .. maskMaxLen : rt.rts[SlotOf(L)].mask = TopMask(L)

\* C18 (sectioned table, any interleaving of AddRoute and DelRoute): a step
\* that changes the table is the store of an AddRoute(N/L, V) or the delete
\* of a DelRoute(N/L); it leaves every other slot, every other bit and every
\* other section as they were, and in the slot selected for L it leaves
\* every entry but that of the normalized network N as it was; AddRoute
\* leaves N mapped to V and DelRoute leaves N absent.
C18_OnlyTheExactPrefix ==
    [][rt2' # rt2 =>
          \E p \in procs :
              LET c  == call[p].network
                  N  == PrefixOf(c).net
                  i  == IpID(SlotOf(c.n))
                  j  == SecID(SlotOf(c.n))
                  h  == rt2.rts[i].rtSec[j].rtHash
                  h2 == rt2'.rts[i].rtSec[j].rtHash
              IN  /\ pc[p] \in {"a86", "d108"} /\ pc'[p] = "idle"
                  /\ WellFormedIPv4(c)
                  /\ \A i2 \in 0 .. (IpSection - 1) : \A j2 \in 0 .. (SectionSize - 1) :
                        <<i2, j2>> # <<i, j>> =>
                            /\ rt2'.rts[i2].rtSec[j2] = rt2.rts[i2].rtSec[j2]
                            /\ (j2 \in rt2'.rts[i2].slotMask) <=> (j2 \in rt2.rts[i2].slotMask)
                  /\ rt2'.rts[i].rtSec[j].mask = rt2.rts[i].rtSec[j].mask
                  /\ \A k \in (DOMAIN h \cup DOMAIN h2) \ {N} :
                        k \in DOMAIN h /\ k \in DOMAIN h2 /\ h2[k] = h[k]
                  /\ call[p].op = "AddRoute" => N \in DOMAIN h2 /\ h2[N] = call[p].v
                  /\ call[p].op = "DelRoute" => N \notin DOMAIN h2]_vars

\* C18's case: DelRoute("10.0.0.5/30") has removed the registered prefix
\* 10.0.0.4/30 while 10.0.0.4/32, 10.0.0.5/32 and 10.0.0.0/28 stay stored.
C18_Witness ==
    \E p \in procs :
        /\ Completed(p, "DelRoute") /\ call[p].network = Host30 /\ call[p].known
        /\ SlotEmpty(0, 2)
        /\ DOMAIN rt2.rts[0].rtSec[0].rtHash = {Addr(<<10, 0, 0, 4>>), A_10_0_0_5}
        /\ DOMAIN rt2.rts[1].rtSec[4].rtHash = {Addr(<<10, 0, 0, 0>>)}

\* No AddRoute or DelRoute call is in progress.
Quiescent == \A p \in procs : IsWrite(p) => pc[p] = "idle"

\* C19 (flat table, any interleaving of AddRoute and DelRoute on prefix
\* lengths 1..32): in every state in which no AddRoute or DelRoute is in
\* progress, bit s of slotMask is set if and only if the map of slot s is
\* not empty.
C19_ConsistentAtQuiescence ==
    (pkg = "route" /\ Quiescent) =>
        \A s \in 0 .. (maskMaxLen - 1) : (s \in rt.slotMask) <=> ~FlatSlotEmpty(s)

\* C19's case: both goroutines have returned from their calls, one from a
\* DelRoute that removed 10.0.0.4/32 and one from an AddRoute on the same
\* slot that the DelRoute overlapped or followed; 10.0.0.5/32 is still in
\* slot 0 and 10.0.0.0/24 in slot 8, and both bits are set.
C19_Witness ==
    /\ Quiescent
    /\ \E p \in procs :
          Completed(p, "DelRoute") /\ call[p].network = Host32b /\ call[p].known
    /\ \E q \in procs :
          Completed(q, "AddRoute") /\ call[q].network = Host32 /\ call[q].delSince
    /\ DOMAIN rt.rts[0].rtHash = {A_10_0_0_5}
    /\ ~FlatSlotEmpty(8)
    /\ rt.slotMask = {0, 8}

====
